---- MODULE Spec2Model ----
(***************************************************************************)
(* Iterative masked-token decoding of gen_img_cond.py (gen_image and       *)
(* mask_by_random_topk) together with the token masking protocol of        *)
(* models_mage_decoder.py.                                                 *)
(*                                                                         *)
(* Reals are represented by integers:                                      *)
(*  - a probability is the numerator of a fraction whose denominator is    *)
(*    the same at every position (a power of two), so log(probs) is Log2   *)
(*    of the numerator up to one additive constant;                        *)
(*  - the temperature choice_temperature * (1 - ratio), with               *)
(*    ratio = (step + 1) / num_iter, is the fraction                       *)
(*    choice_temperature * (num_iter - step - 1) / num_iter; confidences   *)
(*    are kept multiplied by num_iter, which preserves their order;        *)
(*  - np.cos(pi/2 * ratio) is tabulated in millionths (rounded down).      *)
(***************************************************************************)
EXTENDS Integers, Sequences, FiniteSets, TLC

\* ---------------------------------------------------------------- bounds
\* largest batch size a call is started with
MaxBsz == 2
\* longest token grid a call is started with (256 in the program)
MaxGridLen == 4
\* most grid positions of a batch: batch size * grid length
MaxCells == 6
\* number of codebook entries (1024 in the program)
codebook_size == 2
\* largest num_iter a call is started with
MaxIter == 4
\* largest choice_temperature a call is started with
MaxChoiceTemp == 1
\* largest Gumbel draw
MaxGumbel == 2
\* images a call is given: 0 .. MaxImage
MaxImage == 1
\* mask_rate is drawn in steps of 1 / MaskRateDen
MaskRateDen == 4
\* torch.rand is drawn from 0 .. MaxRand
MaxRand == 2
\* "Rerandom the noise!" rounds followed in one forward_encoder call
MaxRerandom == 2
\* seeds a call is given: 0 .. MaxSeed
MaxSeed == 1
\* states of a random generator: 0 .. MaxRngState
MaxRngState == 3

\* ------------------------------------------------------------- constants
vocab_size == codebook_size + 1000 + 1
fake_class_label == codebook_size + 1100 - 1024
mask_token_label == vocab_size - 1
\* +np.inf
CONFIDENCE_OF_KNOWN_TOKENS == 1000000000
\* SlotAttentionEncoder(num_slots=7)
num_slots == 7

\* The arguments and the locals of gen_image that are read after the
\* statement that assigns them; ratio, mask_ratio, probs, selected_probs,
\* mask_len and masking are assigned and consumed inside lines 91-112 and are
\* operators.
VARIABLES
    bsz,                \* argument bsz; bsz of forward_encoder
    unknown_number_in_the_beginning, \* length of the token grid; seq_len
    pc,                 \* position in gen_image
    num_iter,           \* argument num_iter
    choice_temperature, \* argument choice_temperature
    step,               \* iterations completed; the loop variable inside one
    token_indices,      \* grid between iterations, sequence inside one
    cur_ids,
    token_all_mask,
    token_drop_mask,
    raw_sampled_ids,    \* sample_dist.sample()
    sampled_ids,        \* after the merge of line 88
    unknown_map,
    x_after_pad,        \* forward_decoder: its input before the positions are added
    gen_images,
    \* forward_encoder of models_mage_decoder.py
    image,              \* argument x
    gt_indices,
    enc_x,              \* the token sequence the encoder blocks consumed
    mask_rate,          \* numerator over MaskRateDen
    rerandoms,          \* "Rerandom the noise!" lines printed
    enc_token_indices,  \* token_indices of lines 344-352
    enc_token_drop_mask,
    enc_token_all_mask,
    \* the process around gen_image
    seed,               \* argument seed
    torch_rng,          \* state of torch's global generator
    np_rng,             \* state of numpy's global generator
    slots,              \* first result of model.slot_attention, line 48
    files               \* the image files on disk: <<name, content>>

gen_vars_but_pc == <<num_iter, choice_temperature, step, token_indices, cur_ids,
                     token_all_mask, token_drop_mask, raw_sampled_ids,
                     sampled_ids, unknown_map, x_after_pad, gen_images>>

gen_vars == <<pc, gen_vars_but_pc>>

enc_vars == <<image, gt_indices, enc_x, mask_rate, rerandoms, enc_token_indices,
              enc_token_drop_mask, enc_token_all_mask>>

shape_vars == <<bsz, unknown_number_in_the_beginning>>

proc_vars == <<seed, torch_rng, np_rng, slots, files>>

vars == <<shape_vars, gen_vars, enc_vars, proc_vars>>

\* the shapes a call is started with
Shapes == {sh \in (1 .. MaxBsz) \X (1 .. MaxGridLen) : sh[1] * sh[2] <= MaxCells}

Items == 0 .. (bsz - 1)
\* positions of the token grid; position 0 of the token sequence is the
\* prepended class token
Grid == 1 .. unknown_number_in_the_beginning
SeqPos == 0 .. unknown_number_in_the_beginning
Codebook == 0 .. (codebook_size - 1)
\* indices of the decoder sequence torch.cat((slots, x), dim=1)
DecoderPositions == 0 .. (num_slots + unknown_number_in_the_beginning)
\* the token sequence position that decoder index j carries (j >= num_slots)
SeqPosOf(j) == j - num_slots
\* logits[:, num_slots+1:, :codebook_size]: the sequence positions sampled
SampledPositions == {SeqPosOf(j) : j \in {i \in DecoderPositions : i >= num_slots + 1}}
\* np.random.gumbel, sampled at two points
GumbelDraws == {0, MaxGumbel}

\* value of a local that has not been assigned yet
Unset == <<>>

\* ------------------------------------------------------------ arithmetic
Max(a, b) == IF a >= b THEN a ELSE b
Min(a, b) == IF a <= b THEN a ELSE b

RECURSIVE Pow2(_)
Pow2(n) == IF n = 0 THEN 1 ELSE 2 * Pow2(n - 1)

RECURSIVE Log2(_)
Log2(n) == IF n <= 1 THEN 0 ELSE 1 + Log2(n \div 2)

\* torch.log on a probability numerator; log(inf) = inf
TorchLog(p) == IF p = CONFIDENCE_OF_KNOWN_TOKENS
               THEN CONFIDENCE_OF_KNOWN_TOKENS ELSE Log2(p)

\* floor(1000000 * cos(pi/2 * j / n)) for j = 1 .. n, as np.cos computes it
CosTable == <<
    <<0>>,
    <<707106, 0>>,
    <<866025, 500000, 0>>,
    <<923879, 707106, 382683, 0>>,
    <<951056, 809016, 587785, 309016, 0>>,
    <<965925, 866025, 707106, 500000, 258819, 0>>,
    <<974927, 900968, 781831, 623489, 433883, 222520, 0>> >>

\* mask_ratio = np.cos(math.pi / 2. * ratio), ratio = (s + 1) / n, in millionths
mask_ratio(s, n) == CosTable[n][s + 1]

\* np.floor(unknown_number_in_the_beginning * mask_ratio)
FloorMaskLen(s, n) == (unknown_number_in_the_beginning * mask_ratio(s, n)) \div 1000000

\* --------------------------------------------------------------- sorting
RECURSIVE InsertSorted(_, _)
InsertSorted(sq, v) ==
    IF sq = <<>> THEN <<v>>
    ELSE IF v <= Head(sq) THEN <<v>> \o sq
    ELSE <<Head(sq)>> \o InsertSorted(Tail(sq), v)

RECURSIVE SortFrom(_, _)
SortFrom(f, p) ==
    IF p > unknown_number_in_the_beginning THEN <<>>
    ELSE InsertSorted(SortFrom(f, p + 1), f[p])

\* torch.sort(confidence, axis=-1) of one batch row, ascending
TorchSort(f) == SortFrom(f, 1)

\* ------------------------------------------------------ remasking policy
\* faulty variant: the noise is added at full scale whatever the temperature
ConfidenceUnscaled(probs, tnum, tden, gumbel) ==
    [p \in Grid |->
        IF TorchLog(probs[p]) = CONFIDENCE_OF_KNOWN_TOKENS
        THEN CONFIDENCE_OF_KNOWN_TOKENS
        ELSE tden * TorchLog(probs[p]) + tden * gumbel[p]]

\* confidence of one row, multiplied by tden:
\* log(probs) + temperature * gumbel with temperature = tnum / tden
Confidence(probs, tnum, tden, gumbel) ==
    [p \in Grid |->
        IF TorchLog(probs[p]) = CONFIDENCE_OF_KNOWN_TOKENS
        THEN CONFIDENCE_OF_KNOWN_TOKENS
        ELSE tden * TorchLog(probs[p]) + tnum * gumbel[p]]

\* faulty variant: only the positions strictly below the cut off are masked
mask_by_random_topk_strict(len, probs, tnum, tden, gumbel) ==
    LET confidence == Confidence(probs, tnum, tden, gumbel)
        sorted_confidence == TorchSort(confidence)
        cut_off == sorted_confidence[len]
    IN  [p \in Grid |-> confidence[p] < cut_off]

\* one row of mask_by_random_topk: the cut off is the mask_len-th smallest
\* confidence and every position at or below it is masked
mask_by_random_topk(len, probs, tnum, tden, gumbel) ==
    LET confidence == Confidence(probs, tnum, tden, gumbel)
        sorted_confidence == TorchSort(confidence)
        cut_off == sorted_confidence[len]
    IN  [p \in Grid |-> confidence[p] <= cut_off]

\* ------------------------------------------------------------- the model
\* numerator of softmax(logits)[b][p][i]; the rows are permutations of one
\* another, so they share their denominator
Probs(b, p, i) == Pow2((b + p + i) % codebook_size)

AllMasked == [b \in Items |-> [p \in Grid |-> mask_token_label]]

\* states of a generator
RngStates == 0 .. MaxRngState

\* torch.manual_seed, np.random.seed: the state is a function of the seed
manual_seed(sd) == sd % (MaxRngState + 1)

\* a draw advances the generator
RngNext(rng) == (rng + 1) % (MaxRngState + 1)

\* the id that sample_dist.sample() yields at one position in one state of
\* torch's generator
TorchOutput(rng, b, p) == (rng + b + p * (rng + 1)) % codebook_size

\* the value that np.random.gumbel yields at one position in one state of
\* numpy's generator
NumpyOutput(rng, b, p) ==
    IF ((rng \div 2) + p + b * rng) % 2 = 0 THEN 0 ELSE MaxGumbel

\* os.path.join(save_folder, '{}.png'.format(str(n).zfill(5))): zfill pads
\* and never truncates, so the name is the number
SaveFolder(n) == <<"save_folder", n>>

\* os.path.join(args.output_dir, 'orig_{}.png'.format(str(n).zfill(5)))
OutputDir(n) == <<"output_dir", n>>

\* cv2.imwrite for each of writes, a set of <<name, content>>: a file of the
\* same name is replaced
WriteFiles(fs, writes) ==
    {f \in fs : \A w \in writes : w[1] # f[1]} \cup writes

EncUnset ==
    /\ gt_indices = Unset
    /\ enc_x = Unset
    /\ mask_rate = Unset
    /\ rerandoms = 0
    /\ enc_token_indices = Unset
    /\ enc_token_drop_mask = Unset
    /\ enc_token_all_mask = Unset

GenUnset ==
    /\ cur_ids = Unset
    /\ token_all_mask = Unset
    /\ token_drop_mask = Unset
    /\ raw_sampled_ids = Unset
    /\ sampled_ids = Unset
    /\ unknown_map = Unset
    /\ x_after_pad = Unset
    /\ gen_images = Unset

\* the generators as earlier draws of the process left them, an empty folder
ProcessInit ==
    /\ torch_rng \in RngStates
    /\ np_rng \in RngStates
    /\ slots = Unset
    /\ files = {}

\* a call of gen_image with any image and any seed
InitCall ==
    /\ \E sh \in Shapes : bsz = sh[1] /\ unknown_number_in_the_beginning = sh[2]
    /\ pc = "start"
    /\ num_iter \in 1 .. MaxIter
    /\ choice_temperature \in 0 .. MaxChoiceTemp
    /\ step = 0
    /\ token_indices = Unset
    /\ GenUnset
    /\ image \in 0 .. MaxImage
    /\ EncUnset
    /\ seed \in 0 .. MaxSeed
    /\ ProcessInit

\* the call of line 312: the loop of line 305 is left after its first round
\* (line 330), so the image is the first batch and seed = batch = 0
InitGen ==
    /\ InitCall
    /\ image = 0
    /\ seed = 0

\* forward_encoder of models_mage_decoder.py entered with an image
InitForward ==
    /\ \E sh \in Shapes : bsz = sh[1] /\ unknown_number_in_the_beginning = sh[2]
    /\ pc = "forward_encoder"
    /\ num_iter = Unset
    /\ choice_temperature = Unset
    /\ step = Unset
    /\ token_indices = Unset
    /\ GenUnset
    /\ image \in 0 .. MaxImage
    /\ EncUnset
    /\ seed = Unset
    /\ ProcessInit

Init == InitGen \/ InitForward

\* faulty variant: the zero column is left as torch.zeros made it
WithZeroColumn(grid) ==
    [b \in Items |-> [p \in SeqPos |-> IF p = 0 THEN 0 ELSE grid[b][p]]]

\* torch.cat of a zero column and the grid, then column 0 := fake_class_label
WithClassToken(grid) ==
    [b \in Items |-> [p \in SeqPos |->
        IF p = 0 THEN fake_class_label ELSE grid[b][p]]]

\* self.vqgan.encode(x): the token grid of an image, codebook ids only
vqgan_encode(img) ==
    [b \in Items |-> [p \in Grid |-> (img + b + p) % codebook_size]]

\* model.token_emb, model.blocks, model.norm: one vector per position of the
\* sequence, named by the position and the id it embeds
Encoder(sq) ==
    [b \in DOMAIN sq |-> [p \in DOMAIN sq[b] |-> <<p, sq[b][p]>>]]

\* the latent of an image: tokenization, class token, encoder
model_forward_encoder(img) == Encoder(WithClassToken(vqgan_encode(img)))

\* model.slot_attention: the slots of an item are a function of the encoder
\* output of the item
slot_attention(inputs) == [b \in DOMAIN inputs |-> <<"slots", inputs[b]>>]

\* faulty variant: line 75 is executed
IterationSlotsRecomputed(x, s) == slot_attention(x)

\* the slots that reach forward_decoder at line 79: line 75 is a comment, so
\* they are the slots of line 48
IterationSlots(x, s) == s

\* faulty variant: np.random.seed(seed) is missing
SeedNumpySkipped(rng, sd) == rng

\* np.random.seed(seed) on the generator state rng
SeedNumpy(rng, sd) == manual_seed(sd)

\* lines 34-53: the seeding of both generators, the slots of the image, the
\* fully masked grid
gen_image_start ==
    /\ pc = "start"
    /\ pc' = "sample"
    /\ torch_rng' = manual_seed(seed)
    /\ np_rng' = SeedNumpy(np_rng, seed)
    /\ slots' = slot_attention(model_forward_encoder(image))
    /\ token_indices' = AllMasked
    /\ step' = 0
    /\ UNCHANGED shape_vars
    /\ UNCHANGED <<num_iter, choice_temperature, cur_ids, token_all_mask,
                   token_drop_mask, raw_sampled_ids, sampled_ids, unknown_map,
                   x_after_pad, gen_images, enc_vars, seed, files>>

\* self.decoder_embed on one vector
decoder_embed(v) == <<"decoder_embed", v>>

\* torch.cat((slots, x), dim=1): what each index of the decoder sequence
\* carries, the slots first and then the token sequence with its class
\* position
DecoderSequence ==
    [j \in DecoderPositions |->
        IF j < num_slots THEN <<"slot", j>> ELSE <<"token", j - num_slots>>]

\* t[start:] along one axis of a tensor indexed from 0
SliceFrom(t, start) ==
    [i \in 0 .. (Cardinality(DOMAIN t) - 1 - start) |-> t[start + i]]

\* logits[:, model.slot_attention.num_slots+1:, :codebook_size] of gen_image
GenLogitsSlice(t) == SliceFrom(t, num_slots + 1)

\* the rows of atts[:,8:,:7] in forward_decoder
AttsSlotsRows(t) == SliceFrom(t, 8)

\* faulty variant: the slice that skips the class position only
LossLogitsSliceFromOne(t) == SliceFrom(t, 1)

\* logits[:, 8:, :self.codebook_size] of forward_loss
LossLogitsSlice(t) == SliceFrom(t, 8)

\* faulty variant: pad_with_cls_token is off and the learned mask token pads
MaskTokensLearned(x, all_mask) ==
    [b \in DOMAIN all_mask |-> [p \in DOMAIN all_mask[b] |-> <<"mask_token">>]]

\* lines 393-394 (pad_with_cls_token is True): x[:, 0:1] repeated along
\* the positions of token_all_mask
MaskTokens(x, all_mask) ==
    [b \in DOMAIN all_mask |-> [p \in DOMAIN all_mask[b] |-> x[b][0]]]

\* the number of cells before <<b, p>>, in row-major order, that are not
\* dropped: the row of x.reshape(...) that line 400 writes at <<b, p>>
UndroppedBefore(drop, b, p) ==
    Cardinality({c \in Items \X SeqPos :
                    /\ drop[c[1]][c[2]] = 0
                    /\ (c[1] < b \/ (c[1] = b /\ c[2] < p))})

\* lines 390-402 of forward_decoder: the embedding, the padding with mask
\* tokens, the undropped vectors put back in sequence order, the mask token
\* at the masked positions
forward_decoder_input(x_enc, drop, all_mask) ==
    LET x == [b \in DOMAIN x_enc |-> [p \in DOMAIN x_enc[b] |-> decoder_embed(x_enc[b][p])]]
        mask_tokens == MaskTokens(x, all_mask)
        \* x.reshape(x.shape[0] * x.shape[1], x.shape[2])[k]
        row(k) == x[k \div (unknown_number_in_the_beginning + 1)]
                   [k % (unknown_number_in_the_beginning + 1)]
    IN  [b \in Items |-> [p \in SeqPos |->
            IF all_mask[b][p] THEN mask_tokens[b][p]
            ELSE IF drop[b][p] = 0 THEN row(UndroppedBefore(drop, b, p))
            ELSE mask_tokens[b][p]]]

\* faulty variant: the new sample overwrites every position
MergeSampledEverywhere(umap, sampled, cur) ==
    [b \in Items |-> [p \in Grid |-> sampled[b][p]]]

\* torch.where(unknown_map, sampled_ids, cur_ids)
MergeSampled(umap, sampled, cur) ==
    [b \in Items |-> [p \in Grid |->
        IF umap[b][p] THEN sampled[b][p] ELSE cur[b][p]]]

\* the positions whose sample the merge keeps
MaskedCells ==
    {c \in Items \X SampledPositions : token_indices[c[1]][c[2]] = mask_token_label}

\* lines 56-88 with draw for the result of sample_dist.sample() at the masked
\* positions: snapshot, class token, mask flags, sampling, merge
Sample(draw) ==
    LET cur == token_indices
        sq == WithClassToken(token_indices)
        umap == [b \in Items |-> [p \in Grid |-> cur[b][p] = mask_token_label]]
        \* a draw at a resolved position is discarded by the merge; one
        \* value that differs from the resolved id stands for all of them
        sampled == [b \in Items |-> [p \in SampledPositions |->
                       IF umap[b][p] THEN draw[<<b, p>>]
                       ELSE (cur[b][p] + 1) % codebook_size]]
    IN  /\ pc' = "remask"
        /\ cur_ids' = cur
        /\ token_indices' = sq
        /\ token_all_mask' = [b \in Items |-> [p \in SeqPos |-> sq[b][p] = mask_token_label]]
        /\ token_drop_mask' = [b \in Items |-> [p \in SeqPos |-> 0]]
        /\ slots' = IterationSlots(Encoder(sq), slots)
        /\ x_after_pad' = forward_decoder_input(Encoder(sq),
               [b \in Items |-> [p \in SeqPos |-> 0]],
               [b \in Items |-> [p \in SeqPos |-> sq[b][p] = mask_token_label]])
        /\ raw_sampled_ids' = sampled
        /\ unknown_map' = umap
        /\ sampled_ids' = MergeSampled(umap, sampled, cur)
        /\ torch_rng' = RngNext(torch_rng)
        /\ UNCHANGED shape_vars
        /\ UNCHANGED <<num_iter, choice_temperature, step, gen_images, enc_vars,
                       seed, np_rng, files>>

\* lines 56-88, whatever the generator yields
gen_image_sample ==
    /\ pc = "sample"
    /\ step < num_iter
    /\ \E draw \in [MaskedCells -> Codebook] : Sample(draw)

\* lines 56-88 with the generator whose outputs are TorchOutput
seeded_sample ==
    /\ pc = "sample"
    /\ step < num_iter
    /\ Sample([c \in MaskedCells |-> TorchOutput(torch_rng, c[1], c[2])])

\* faulty variant: resolved positions keep their gathered probability
SelectedProbsNoSentinel(umap, ids) ==
    [b \in Items |-> [p \in Grid |-> Probs(b, p, ids[b][p])]]

\* torch.where(unknown_map, gather(probs, sampled_ids), inf)
SelectedProbs(umap, ids) ==
    [b \in Items |-> [p \in Grid |->
        IF umap[b][p] THEN Probs(b, p, ids[b][p])
        ELSE CONFIDENCE_OF_KNOWN_TOKENS]]

\* faulty variant: the "- 1" of line 107 is missing
TargetMaskLenNoMinusOne(umap, s, n) ==
    [b \in Items |->
        Max(1, Min(Cardinality({p \in Grid : umap[b][p]}), FloorMaskLen(s, n)))]

\* torch.maximum(1, torch.minimum(sum(unknown_map) - 1, floor(L * mask_ratio)))
TargetMaskLen(umap, s, n) ==
    [b \in Items |->
        Max(1, Min(Cardinality({p \in Grid : umap[b][p]}) - 1, FloorMaskLen(s, n)))]

\* torch.where(masking, mask_token_id, sampled_ids)
ApplyMasking(msk, ids) ==
    [b \in Items |-> [p \in Grid |->
        IF msk[b][p] THEN mask_token_label ELSE ids[b][p]]]

\* choice_temperature * (1 - ratio) as a numerator over num_iter
TemperatureNum(ct, s, n) == ct * (n - (s + 1))

\* mask_by_random_topk(mask_len[0], selected_probs, temperature) on the batch
Masking(umap, ids, ct, s, n, gumbel) ==
    LET sel == SelectedProbs(umap, ids)
        len == TargetMaskLen(umap, s, n)
    IN  [b \in Items |->
            mask_by_random_topk(len[0], sel[b], TemperatureNum(ct, s, n), n, gumbel[b])]

\* line 163: one file per item, b_id + 100 * step
MaskVisWrites(s) ==
    {<<SaveFolder(b + 100 * s), <<"mask_vis", s, b>>>> : b \in Items}

\* line 188: one file per item, b_id + 1000000 * step (batch_size = 32 of
\* line 166 is the batch size of the call)
PerIterWrites(s) ==
    {<<SaveFolder(b + 1000000 * s), <<"per_iter", s, b>>>> : b \in Items}

\* faulty variant: the loop is left one iteration early
LoopNextEarly(s, n) == IF s + 2 < n THEN "sample" ELSE "decode"

\* for step in range(num_iter): after iteration s comes iteration s + 1, or
\* line 192 when s was the last
LoopNext(s, n) == IF s + 1 < n THEN "sample" ELSE "decode"

\* the positions whose noise can decide the masking
UnknownCells == {c \in Items \X Grid : unknown_map[c[1]][c[2]]}

\* lines 91-188 with draw for the result of np.random.gumbel at the unknown
\* positions: schedule, confidence, target length, remasking, the files of
\* with_mask_vis and then of per_iter
Remask(draw) ==
    \* the confidence of a resolved position is inf whatever its noise;
    \* one value stands for every draw there
    LET gumbel == [b \in Items |-> [p \in Grid |->
                      IF unknown_map[b][p] THEN draw[<<b, p>>] ELSE 0]]
    IN  /\ pc' = LoopNext(step, num_iter)
        /\ token_indices' = ApplyMasking(
               Masking(unknown_map, sampled_ids, choice_temperature, step, num_iter, gumbel),
               sampled_ids)
        /\ np_rng' = RngNext(np_rng)
        /\ files' = WriteFiles(WriteFiles(files, MaskVisWrites(step)), PerIterWrites(step))
        /\ step' = step + 1
        /\ UNCHANGED shape_vars
        /\ UNCHANGED <<num_iter, choice_temperature, cur_ids, token_all_mask,
                       token_drop_mask, raw_sampled_ids, sampled_ids, unknown_map,
                       x_after_pad, gen_images, enc_vars, seed, torch_rng, slots>>

\* lines 91-188, whatever the generator yields
gen_image_remask ==
    /\ pc = "remask"
    /\ \E draw \in [UnknownCells -> GumbelDraws] : Remask(draw)

\* lines 91-188 with the generator whose outputs are NumpyOutput
seeded_remask ==
    /\ pc = "remask"
    /\ Remask([c \in UnknownCells |-> NumpyOutput(np_rng, c[1], c[2])])

\* model.vqgan.quantize.get_codebook_entry on one id: an embedding lookup,
\* defined for the ids of the codebook only (-1 stands for its IndexError)
get_codebook_entry(i) == IF i \in Codebook THEN 100 + i ELSE -1

\* faulty variant: the carried grid is decoded
DecodeCarriedGrid(tokens, sampled) == tokens

\* the grid handed to the codec at line 192
DecodeInput(tokens, sampled) == sampled

\* lines 191-194: the image is the grid of decoded codebook entries
gen_image_decode ==
    /\ pc = "decode"
    /\ pc' = "done"
    /\ gen_images' = [b \in Items |-> [p \in Grid |->
                        get_codebook_entry(DecodeInput(token_indices, sampled_ids)[b][p])]]
    /\ UNCHANGED shape_vars
    /\ UNCHANGED <<num_iter, choice_temperature, step, token_indices, cur_ids,
                   token_all_mask, token_drop_mask, raw_sampled_ids,
                   sampled_ids, unknown_map, x_after_pad, enc_vars, proc_vars>>

\* line 322: one file per item, b_id
FinalWrites ==
    {<<SaveFolder(b), <<"final", num_iter, b>>>> : b \in Items}

\* line 329: the input images, in the folder above
OrigWrites ==
    {<<OutputDir(b), <<"orig", num_iter, b>>>> : b \in Items}

\* lines 313-329: the returned images and the input images are written
save_images ==
    /\ pc = "done"
    /\ pc' = "saved"
    /\ files' = WriteFiles(WriteFiles(files, FinalWrites), OrigWrites)
    /\ UNCHANGED shape_vars
    /\ UNCHANGED <<gen_vars_but_pc, enc_vars, seed, torch_rng, np_rng, slots>>

\* a statement of gen_image raises (a CUDA error, an index out of the
\* codebook, a file that cannot be written)
gen_image_fail ==
    /\ pc \in {"start", "sample", "remask", "decode"}
    /\ pc' = "raising"
    /\ UNCHANGED shape_vars
    /\ UNCHANGED <<gen_vars_but_pc, enc_vars, proc_vars>>

\* faulty variant: a handler around the body of the loop goes on with the
\* next round
HandlerResumes(at) == "sample"

\* where an exception raised in gen_image is handled: there is no try in
\* gen_image nor around line 312, so it ends the process
Handler(at) == "failed"

\* the exception leaves gen_image and the loop of line 305: the frame of
\* gen_image, with the grid, is gone
exception_propagates ==
    /\ pc = "raising"
    /\ pc' = Handler(pc)
    /\ IF Handler(pc) = "failed"
       THEN /\ token_indices' = Unset
            /\ cur_ids' = Unset
            /\ token_all_mask' = Unset
            /\ token_drop_mask' = Unset
            /\ raw_sampled_ids' = Unset
            /\ sampled_ids' = Unset
            /\ unknown_map' = Unset
            /\ x_after_pad' = Unset
            /\ slots' = Unset
       ELSE UNCHANGED <<token_indices, cur_ids, token_all_mask,
                        token_drop_mask, raw_sampled_ids, sampled_ids,
                        unknown_map, x_after_pad, slots>>
    /\ UNCHANGED shape_vars
    /\ UNCHANGED <<num_iter, choice_temperature, step, gen_images, enc_vars,
                   seed, torch_rng, np_rng, files>>

\* ------------------------------- forward_encoder, models_mage_decoder.py
\* mask_ratio_generator.rvs: truncnorm on [mask_ratio_min, mask_ratio_max]
\* = [0.5, 1.0], as numerators over MaskRateDen
MaskRates == {r \in 0 .. MaskRateDen : 2 * r >= MaskRateDen}

\* int(np.ceil(seq_len * mask_rate))
num_masked_tokens(rate) ==
    (unknown_number_in_the_beginning * rate + MaskRateDen - 1) \div MaskRateDen

\* faulty variant: the positions strictly below the cut off are flagged
NoiseMaskStrict(noise, n) ==
    [b \in Items |->
        LET sorted_noise == TorchSort(noise[b])
            cutoff_mask == sorted_noise[n]
        IN  [p \in Grid |-> IF noise[b][p] < cutoff_mask THEN 1 ELSE 0]]

\* lines 336-338: token_all_mask = (noise <= cutoff_mask).float()
NoiseMask(noise, n) ==
    [b \in Items |->
        LET sorted_noise == TorchSort(noise[b])
            cutoff_mask == sorted_noise[n]
        IN  [p \in Grid |-> IF noise[b][p] <= cutoff_mask THEN 1 ELSE 0]]

\* token_all_mask.sum()
MaskSum(m) ==
    LET RECURSIVE RowSum(_, _)
        RowSum(row, p) == IF p > unknown_number_in_the_beginning THEN 0
                          ELSE row[p] + RowSum(row, p + 1)
        RECURSIVE Total(_)
        Total(b) == IF b >= bsz THEN 0 ELSE RowSum(m[b], 1) + Total(b + 1)
    IN  Total(0)

\* faulty variant: the prepended column is flagged
WithOneMaskColumn(m) ==
    [b \in Items |-> [p \in SeqPos |-> IF p = 0 THEN 1 ELSE m[b][p]]]

\* torch.cat of a zero column and a mask
WithZeroMaskColumn(m) ==
    [b \in Items |-> [p \in SeqPos |-> IF p = 0 THEN 0 ELSE m[b][p]]]

\* lines 274-331: tokenization, the unmasked sequence through the encoder,
\* the draw of mask_rate
forward_encoder_encode ==
    /\ pc = "forward_encoder"
    /\ \E rate \in MaskRates :
         LET tokens == vqgan_encode(image)
         IN  /\ gt_indices' = tokens
             /\ enc_x' = WithClassToken(tokens)
             /\ enc_token_drop_mask' =
                    WithZeroMaskColumn([b \in Items |-> [p \in Grid |-> 0]])
             /\ mask_rate' = rate
    /\ np_rng' = RngNext(np_rng)
    /\ pc' = "mask_loop"
    /\ UNCHANGED shape_vars
    /\ UNCHANGED <<num_iter, choice_temperature, step, token_indices, cur_ids,
                   token_all_mask, token_drop_mask, raw_sampled_ids, sampled_ids,
                   unknown_map, x_after_pad, gen_images, image, rerandoms, enc_token_indices,
                   enc_token_all_mask, seed, torch_rng, slots, files>>

\* lines 334-342: a round of the while loop whose count is not exact
forward_encoder_rerandom ==
    /\ pc = "mask_loop"
    /\ rerandoms < MaxRerandom
    /\ \E noise \in [Items -> [Grid -> 0 .. MaxRand]] :
         MaskSum(NoiseMask(noise, num_masked_tokens(mask_rate)))
             # bsz * num_masked_tokens(mask_rate)
    /\ rerandoms' = rerandoms + 1
    /\ torch_rng' = RngNext(torch_rng)
    /\ UNCHANGED shape_vars
    /\ UNCHANGED <<gen_vars, image, gt_indices, enc_x, mask_rate,
                   enc_token_indices, enc_token_drop_mask, enc_token_all_mask,
                   seed, np_rng, slots, files>>

\* lines 334-354: the round of the while loop that breaks, the masking of
\* the tokens, the class token, the return
forward_encoder_mask ==
    /\ pc = "mask_loop"
    /\ \E noise \in [Items -> [Grid -> 0 .. MaxRand]] :
         LET m == NoiseMask(noise, num_masked_tokens(mask_rate))
         IN  /\ MaskSum(m) = bsz * num_masked_tokens(mask_rate)
             /\ enc_token_indices' = WithClassToken(
                    [b \in Items |-> [p \in Grid |->
                        IF m[b][p] = 1 THEN mask_token_label ELSE gt_indices[b][p]]])
             /\ enc_token_all_mask' = WithZeroMaskColumn(m)
    /\ torch_rng' = RngNext(torch_rng)
    /\ pc' = "returned"
    /\ UNCHANGED shape_vars
    /\ UNCHANGED <<num_iter, choice_temperature, step, token_indices, cur_ids,
                   token_all_mask, token_drop_mask, raw_sampled_ids, sampled_ids,
                   unknown_map, x_after_pad, gen_images, image, gt_indices, enc_x, mask_rate,
                   rerandoms, enc_token_drop_mask, seed, np_rng, slots, files>>

NextGen ==
    \/ gen_image_sample
    \/ gen_image_remask
    \/ gen_image_decode

Next ==
    \/ gen_image_start
    \/ gen_image_sample
    \/ gen_image_remask
    \/ gen_image_decode
    \/ save_images
    \/ gen_image_fail
    \/ exception_propagates
    \/ forward_encoder_encode
    \/ forward_encoder_rerandom
    \/ forward_encoder_mask

Spec == Init /\ [][Next]_vars

\* the loop of gen_image entered with a grid that holds no mask id
InitResolved ==
    /\ \E sh \in Shapes : bsz = sh[1] /\ unknown_number_in_the_beginning = sh[2]
    /\ pc = "sample"
    /\ num_iter \in 1 .. MaxIter
    /\ choice_temperature \in 0 .. MaxChoiceTemp
    /\ step = 0
    /\ token_indices \in [Items -> [Grid -> Codebook]]
    /\ GenUnset
    /\ image = 0
    /\ EncUnset
    /\ seed = 0
    /\ torch_rng = manual_seed(seed)
    /\ np_rng = manual_seed(seed)
    /\ slots = slot_attention(model_forward_encoder(image))
    /\ files = {}

SpecResolved == InitResolved /\ [][NextGen]_vars

\* gen_image called with any image and any seed, the generators being the
\* ones whose outputs are TorchOutput and NumpyOutput
NextSeeded ==
    \/ gen_image_start
    \/ seeded_sample
    \/ seeded_remask
    \/ gen_image_decode
    \/ save_images
    \/ gen_image_fail
    \/ exception_propagates

SpecSeeded == InitCall /\ [][NextSeeded]_vars

\* gen_image is sequential code: a statement that can run next does run,
\* unless an exception ends the call (every statement moves pc)
FairSeeded ==
    /\ SpecSeeded
    /\ WF_pc(gen_image_start)
    /\ WF_pc(seeded_sample)
    /\ WF_pc(seeded_remask)
    /\ WF_pc(gen_image_decode)
    /\ WF_pc(save_images)
    /\ WF_pc(exception_propagates)

\* ------------------------------------------------------------ properties
\* at least one iteration has run to its end (line 112)
AfterRemask == pc \in {"sample", "decode", "done"} /\ step >= 1

\* number of flagged positions of one row
Count(row) == Cardinality({p \in Grid : row[p]})

\* number of mask ids in one row of a grid
MaskedCount(row) == Cardinality({p \in Grid : row[p] = mask_token_label})

\* the locals of the iteration that ended last, from the values it read
LastStep == step - 1
LastSelectedProbs == SelectedProbs(unknown_map, sampled_ids)
LastMaskLen == TargetMaskLen(unknown_map, LastStep, num_iter)
LastTemperatureNum == TemperatureNum(choice_temperature, LastStep, num_iter)
ZeroGumbel == [p \in Grid |-> 0]

\* C1: a position that held a resolved id entering an iteration is not set
\* to the mask id by the remasking of that iteration and holds the same id
\* after it, whatever the temperature, the probabilities and the noise.
C1_ResolvedStaysResolved ==
    AfterRemask =>
        \A b \in Items : \A p \in Grid :
            cur_ids[b][p] # mask_token_label => token_indices[b][p] = cur_ids[b][p]

\* an iteration at positive temperature was entered with a resolved position
\* and with masked ones in the same row
C1_Witness ==
    /\ AfterRemask
    /\ LastTemperatureNum > 0
    /\ \E b \in Items : \E p, q \in Grid :
          /\ cur_ids[b][p] # mask_token_label
          /\ cur_ids[b][q] = mask_token_label
          /\ token_indices[b][p] = cur_ids[b][p]

\* C2: in every iteration the number of masked positions of each row does
\* not grow, and it shrinks in every iteration but possibly the last.
C2_MaskedCountDecreases ==
    AfterRemask =>
        \A b \in Items :
            /\ MaskedCount(token_indices[b]) <= Count(unknown_map[b])
            /\ LastStep < num_iter - 1 =>
                  MaskedCount(token_indices[b]) < Count(unknown_map[b])

\* C3: the target length max(1, min(masked - 1, floor(L * mask_ratio))) of
\* every row lies in 1 .. masked - 1 whenever masked > 1.
C3_TargetLenInRange ==
    AfterRemask =>
        \A b \in Items :
            Count(unknown_map[b]) > 1 =>
                /\ 1 <= LastMaskLen[b]
                /\ LastMaskLen[b] <= Count(unknown_map[b]) - 1

\* the schedule asked for at least as many positions as were masked, so the
\* "masked - 1" arm decided the target
C3_Witness ==
    /\ AfterRemask
    /\ \E b \in Items :
          /\ Count(unknown_map[b]) > 1
          /\ FloorMaskLen(LastStep, num_iter) >= Count(unknown_map[b])
          /\ LastMaskLen[b] = Count(unknown_map[b]) - 1

\* C4: the remasking marks exactly the target number of positions of every
\* row as masked, and every other position holds its merged id.
C4_ExactlyTargetMasked ==
    AfterRemask =>
        \A b \in Items :
            /\ MaskedCount(token_indices[b]) = LastMaskLen[b]
            /\ \A p \in Grid :
                  token_indices[b][p] # mask_token_label =>
                      token_indices[b][p] = sampled_ids[b][p]

\* C5: after the merge a position that was not masked entering the iteration
\* holds the id it entered with, and a masked one holds the new sample.
C5_MergeKeepsResolved ==
    (pc = "remask" \/ AfterRemask) =>
        \A b \in Items : \A p \in Grid :
            /\ cur_ids[b][p] # mask_token_label => sampled_ids[b][p] = cur_ids[b][p]
            /\ cur_ids[b][p] = mask_token_label => sampled_ids[b][p] = raw_sampled_ids[b][p]

\* the merge discarded a sample that differed from the resolved id and took a
\* sample at a masked position
C5_Witness ==
    /\ pc = "remask"
    /\ \E b \in Items : \E p, q \in Grid :
          /\ cur_ids[b][p] # mask_token_label
          /\ raw_sampled_ids[b][p] # cur_ids[b][p]
          /\ sampled_ids[b][p] = cur_ids[b][p]
          /\ cur_ids[b][q] = mask_token_label
          /\ sampled_ids[b][q] = raw_sampled_ids[b][q]

\* C6: position 0 of the token sequence holds the class id, which differs
\* from the mask id, so position 0 is never flagged in token_all_mask; it
\* is outside the positions that are sampled and re-masked. The same holds
\* of the sequences and the mask that forward_encoder builds.
C6_ClassTokenAtPositionZero ==
    /\ fake_class_label # mask_token_label
    /\ 0 \notin SampledPositions
    /\ pc = "remask" =>
          \A b \in Items : token_indices[b][0] = fake_class_label
    /\ (pc = "remask" \/ AfterRemask) =>
          \A b \in Items :
              /\ ~token_all_mask[b][0]
              /\ 0 \notin DOMAIN raw_sampled_ids[b]
              /\ 0 \notin DOMAIN sampled_ids[b]
    /\ AfterRemask =>
          \A b \in Items : 0 \notin DOMAIN token_indices[b]
    /\ pc \in {"mask_loop", "returned"} =>
          \A b \in Items : enc_x[b][0] = fake_class_label
    /\ pc = "returned" =>
          \A b \in Items :
              /\ enc_token_indices[b][0] = fake_class_label
              /\ enc_token_all_mask[b][0] = 0

\* a later iteration built its sequence from a grid with masked and
\* resolved positions
C6_Witness ==
    /\ pc = "remask"
    /\ step >= 1
    /\ \E b \in Items : \E p, q \in Grid :
          /\ token_all_mask[b][p]
          /\ ~token_all_mask[b][q]
          /\ token_indices[b][0] = fake_class_label

\* C7: the grid decoded into the returned image holds codebook ids only.
C7_DecodedGridIsCodebook ==
    pc = "done" =>
        \A b \in Items : \A p \in Grid :
            /\ sampled_ids[b][p] \in Codebook
            /\ gen_images[b][p] = get_codebook_entry(sampled_ids[b][p])
            /\ gen_images[b][p] # -1

\* a call of several iterations returned while its carried grid still held a
\* mask id
C7_Witness ==
    /\ pc = "done"
    /\ num_iter >= 2
    /\ \E b \in Items : \E p \in Grid : token_indices[b][p] = mask_token_label

C9_OneMaskRemains ==
    AfterRemask =>
        \A b \in Items : MaskedCount(token_indices[b]) >= 1

\* the last iteration of a call of several iterations has run
C9_Witness ==
    /\ pc = "decode"
    /\ num_iter >= 2
    /\ step = num_iter
    /\ \A b \in Items : MaskedCount(token_indices[b]) = 1

\* C10: at temperature 0 the masked set is the same for every noise and is a
\* lowest-confidence selection, for every length 1 .. L.
C10_ZeroTemperatureDeterministic ==
    (AfterRemask /\ LastTemperatureNum = 0) =>
        \A b \in Items :
            /\ \A gumbel \in [Grid -> GumbelDraws] :
                  mask_by_random_topk(LastMaskLen[0], LastSelectedProbs[b], 0,
                                      num_iter, gumbel)
                      = [p \in Grid |-> token_indices[b][p] = mask_token_label]
            /\ \A len \in 1 .. unknown_number_in_the_beginning :
                  LET m0 == mask_by_random_topk(len, LastSelectedProbs[b], 0,
                                                num_iter, ZeroGumbel)
                  IN  /\ \A gumbel \in [Grid -> GumbelDraws] :
                            mask_by_random_topk(len, LastSelectedProbs[b], 0,
                                                num_iter, gumbel) = m0
                      /\ \A p, q \in Grid :
                            (m0[p] /\ ~m0[q]) =>
                                TorchLog(LastSelectedProbs[b][p])
                                    <= TorchLog(LastSelectedProbs[b][q])

\* a call with positive choice_temperature ran its last iteration, whose
\* temperature is 0, on a row with masked positions of different confidence
C10_Witness ==
    /\ AfterRemask
    /\ LastTemperatureNum = 0
    /\ choice_temperature > 0
    /\ \E b \in Items : \E p, q \in Grid :
          /\ unknown_map[b][p]
          /\ unknown_map[b][q]
          /\ LastSelectedProbs[b][p] < LastSelectedProbs[b][q]
          /\ token_indices[b][p] = mask_token_label
          /\ token_indices[b][q] # mask_token_label

\* C11: in a call with bsz = 1, a grid of 4 positions and num_iter = 2 the
\* numbers of masked positions run 4, 2, 1: the first iteration starts from
\* 4 masked positions, has the target 2 and leaves exactly 2 masked; the
\* second has the target 1 and leaves exactly 1 masked.
C11_ToyCountsRun421 ==
    (AfterRemask /\ bsz = 1 /\ unknown_number_in_the_beginning = 4 /\ num_iter = 2) =>
        /\ step = 1 =>
              /\ Count(unknown_map[0]) = 4
              /\ LastMaskLen[0] = 2
              /\ MaskedCount(token_indices[0]) = 2
        /\ step = 2 =>
              /\ LastMaskLen[0] = 1
              /\ MaskedCount(token_indices[0]) = 1

\* a call is inside or past its loop
InCall == pc \in {"sample", "remask", "decode", "done", "saved"}

\* C12 as stated: in every iteration the slots that the decoder is given
\* are the slot bottleneck's result on the encoder output of that iteration.
C12_SlotsFromIterationEncoding ==
    pc = "remask" => slots = slot_attention(Encoder(token_indices))

\* C12 amended: the slot bottleneck runs once per call, before the loop, on
\* the encoder output of the input image, and the decoder of every iteration
\* is given those slots; no iteration recomputes them.
C12_SlotsComputedOnceFromImage ==
    InCall => slots = slot_attention(model_forward_encoder(image))

\* a later iteration has run its decoder on a sequence whose slots would
\* differ from the slots of the image
C12_Witness ==
    /\ pc = "remask"
    /\ step >= 1
    /\ image = MaxImage
    /\ slots = slot_attention(model_forward_encoder(image))
    /\ slots # slot_attention(Encoder(token_indices))

\* C13: within one iteration the next grid of item b depends on item b's own
\* grid, probabilities and draws only: with item 0 put in any other state
\* (here: the state of item b) the next grid of item b is the same, for every
\* noise.
C13_BatchItemsIndependent ==
    pc = "remask" =>
        \A b \in Items : \A gumbel \in [Items -> [Grid -> GumbelDraws]] :
            LET other_map == [unknown_map EXCEPT ![0] = unknown_map[b]]
                other_ids == [sampled_ids EXCEPT ![0] = sampled_ids[b]]
            IN  ApplyMasking(Masking(other_map, other_ids, choice_temperature,
                                     step, num_iter, gumbel), other_ids)[b]
                = ApplyMasking(Masking(unknown_map, sampled_ids, choice_temperature,
                                       step, num_iter, gumbel), sampled_ids)[b]

\* one iteration (lines 56-112) as a function: prev holds the carried grid
\* and the states of the generators before iteration s
IterationFrom(prev, s) ==
    LET cur == prev.grid
        umap == [b \in Items |-> [p \in Grid |-> cur[b][p] = mask_token_label]]
        raw == [b \in Items |-> [p \in SampledPositions |->
                   IF umap[b][p] THEN TorchOutput(prev.torch, b, p)
                   ELSE (cur[b][p] + 1) % codebook_size]]
        ids == MergeSampled(umap, raw, cur)
        gumbel == [b \in Items |-> [p \in Grid |->
                      IF umap[b][p] THEN NumpyOutput(prev.numpy, b, p) ELSE 0]]
    IN  [grid |-> ApplyMasking(
                      Masking(umap, ids, choice_temperature, s, num_iter, gumbel),
                      ids),
         ids |-> ids,
         torch |-> RngNext(prev.torch), numpy |-> RngNext(prev.numpy)]

\* what a call with the arguments of this call computes in its first k
\* iterations when both generators start from the state of its seed: the
\* carried grid, the merged ids and the generators after them
RECURSIVE CallAfter(_)
CallAfter(k) ==
    IF k = 0
    THEN [grid |-> AllMasked, ids |-> Unset,
          torch |-> manual_seed(seed), numpy |-> manual_seed(seed)]
    ELSE CHOOSE r \in {IterationFrom(prev, k - 1) : prev \in {CallAfter(k - 1)}} : TRUE

\* C14: the grid after every iteration and the returned image of a call are
\* those that its image, seed and parameters determine, whatever state
\* earlier draws of the process left the generators in: two calls with the
\* same arguments agree after every iteration and on the image.
C14_SameSeedSameResult ==
    /\ AfterRemask =>
          /\ token_indices = CallAfter(step).grid
          /\ sampled_ids = CallAfter(step).ids
    /\ pc \in {"done", "saved"} =>
          gen_images = [b \in Items |-> [p \in Grid |->
                           get_codebook_entry(CallAfter(num_iter).ids[b][p])]]

\* a call of several iterations at positive temperature has returned, and
\* its generators were left by earlier draws in another state than the one
\* of its seed would have made them reach
C14_Witness ==
    /\ pc = "done"
    /\ num_iter >= 2
    /\ choice_temperature > 0
    /\ bsz = MaxBsz
    /\ seed = MaxSeed
    /\ \E b \in Items : \E p \in Grid :
          unknown_map[b][p] /\ NumpyOutput(manual_seed(seed), b, p) # 0
    /\ gen_images = [b \in Items |-> [p \in Grid |->
                        get_codebook_entry(CallAfter(num_iter).ids[b][p])]]

\* the contents of the files on disk
FileContents == {f[2] : f \in files}

\* C15: when a run has completed, the output folder holds the final image
\* of every item and, for every iteration and every item, the masked-region
\* visualization written for them: no later write has replaced it.
C15_EveryVisualizationKept ==
    pc = "saved" =>
        /\ \A b \in Items : <<"final", num_iter, b>> \in FileContents
        /\ \A s \in 0 .. (num_iter - 1) : \A b \in Items :
              <<"mask_vis", s, b>> \in FileContents

\* C16: a call that no exception ends runs exactly num_iter iterations, in
\* the order step = 0, 1, ..., num_iter - 1, each starting from the grid the
\* previous one produced; then it decodes once and returns, and every call
\* eventually returns or fails.
C16_RunsNumIterIterationsThenReturns ==
    /\ [](pc \in {"decode", "done", "saved"} => step = num_iter)
    /\ [](pc \in {"sample", "remask"} => step \in 0 .. (num_iter - 1))
    /\ [][(pc = "start" /\ pc' # "raising") =>
             (pc' = "sample" /\ step' = 0)]_pc
    /\ [][(pc = "sample" /\ pc' # "raising") =>
             (pc' = "remask" /\ step' = step /\ cur_ids' = token_indices)]_pc
    /\ [][(pc = "remask" /\ pc' # "raising") =>
             (step' = step + 1 /\ pc' \in {"sample", "decode"})]_pc
    /\ [][gen_images' # gen_images =>
             (pc = "decode" /\ pc' = "done" /\ gen_images = Unset)]_pc
    /\ (pc = "start") ~> (pc = "done" \/ pc = "failed")

\* a call of MaxIter iterations has returned
C16_Witness ==
    /\ pc = "done"
    /\ num_iter = MaxIter
    /\ step = num_iter
    /\ gen_images # Unset

\* C17: when a step of gen_image fails the call is aborted: the exception is
\* handled nowhere, no statement of the call runs after it, no image is
\* decoded, returned or saved, and the partly decoded grid is gone.
C17_FailureAbortsCall ==
    /\ [](pc = "failed" =>
             /\ gen_images = Unset
             /\ token_indices = Unset
             /\ sampled_ids = Unset
             /\ \A b \in Items : <<"final", num_iter, b>> \notin FileContents)
    /\ [][pc = "raising" => pc' = "failed"]_pc
    /\ [][pc # "failed"]_pc

\* a call failed after it had completed an iteration and written its files
C17_Witness ==
    /\ pc = "failed"
    /\ step >= 1
    /\ step < num_iter
    /\ files # {}

\* C18: in every iteration the drop mask is zero at all L + 1 positions and
\* the encoder output has all of them; the input of the decoder at a
\* position is the embedded vector of position 0 where token_all_mask is set
\* and the embedded encoder output of that position elsewhere.
C18_DecoderInputByMask ==
    pc = "remask" =>
        \A b \in Items :
            /\ DOMAIN Encoder(token_indices)[b] = SeqPos
            /\ \A p \in SeqPos :
                  /\ token_drop_mask[b][p] = 0
                  /\ x_after_pad[b][p] =
                        IF token_all_mask[b][p]
                        THEN decoder_embed(Encoder(token_indices)[b][0])
                        ELSE decoder_embed(Encoder(token_indices)[b][p])

\* the decoder of a later iteration was given masked and resolved positions
C18_Witness ==
    /\ pc = "remask"
    /\ step >= 1
    /\ \E b \in Items : \E p, q \in Grid :
          /\ token_all_mask[b][p]
          /\ ~token_all_mask[b][q]
          /\ x_after_pad[b][p] = decoder_embed(Encoder(token_indices)[b][0])
          /\ x_after_pad[b][q] = decoder_embed(Encoder(token_indices)[b][q])

\* C19: the logits slice of gen_image, the attention rows of forward_decoder
\* and the logits slice of forward_loss are the same L entries of the decoder
\* sequence, those at indices num_slots + 1 .. num_slots + L; entry i is
\* token-grid position i (sequence position i + 1), never a slot and never
\* the class position.
C19_SlicesSelectTokenGrid ==
    LET want == [i \in 0 .. (unknown_number_in_the_beginning - 1) |->
                    DecoderSequence[num_slots + 1 + i]]
    IN  /\ GenLogitsSlice(DecoderSequence) = want
        /\ AttsSlotsRows(DecoderSequence) = want
        /\ LossLogitsSlice(DecoderSequence) = want
        /\ \A i \in DOMAIN want : want[i] = <<"token", i + 1>>

\* an iteration sampled exactly at the positions the slice selects
C19_Witness ==
    /\ pc = "remask"
    /\ unknown_number_in_the_beginning >= 2
    /\ \A b \in Items :
          DOMAIN raw_sampled_ids[b] =
             {GenLogitsSlice(DecoderSequence)[i][2] :
                 i \in 0 .. (unknown_number_in_the_beginning - 1)}

\* C20: when forward_encoder has returned, every item has exactly
\* ceil(seq_len * mask_rate) flagged grid positions, position 0 is not
\* flagged and gt_indices holds codebook ids only; a round of the loop whose
\* count is not exact returns nothing and draws again.
C20_ExactMaskCountPerItem ==
    /\ [](pc = "returned" =>
           LET want == CHOOSE k \in 0 .. unknown_number_in_the_beginning :
                          /\ k * MaskRateDen >= unknown_number_in_the_beginning * mask_rate
                          /\ (k - 1) * MaskRateDen < unknown_number_in_the_beginning * mask_rate
           IN  \A b \in Items :
                  /\ Cardinality({p \in Grid : enc_token_all_mask[b][p] = 1}) = want
                  /\ \A p \in Grid : enc_token_all_mask[b][p] \in {0, 1}
                  /\ enc_token_all_mask[b][0] = 0
                  /\ \A p \in Grid : /\ gt_indices[b][p] \in Codebook
                                     /\ gt_indices[b][p] # mask_token_label)
    /\ [][(pc = "mask_loop" /\ pc' = "mask_loop") =>
             /\ rerandoms' = rerandoms + 1
             /\ enc_token_all_mask' = enc_token_all_mask]_<<pc, rerandoms>>

\* forward_encoder returned a mask of two items that leaves some position
\* unflagged, after a round that had to be drawn again
C20_Witness ==
    /\ pc = "returned"
    /\ rerandoms >= 1
    /\ bsz = 2
    /\ \A b \in Items :
          /\ \E p \in Grid : enc_token_all_mask[b][p] = 1
          /\ \E p \in Grid : enc_token_all_mask[b][p] = 0
          /\ \E p \in Grid : enc_token_indices[b][p] = mask_token_label
====
